---- MODULE Spec2Model ----
(***************************************************************************)
(* Model of the SearchApp query controller (src/src/App.tsx and its        *)
(* earlier variant src/unnamed/part_000): the React state of the           *)
(* component, the lodash-debounced search function, the effect that calls  *)
(* it after every parameter change, and the asynchronous fetch that the    *)
(* debounced function performs.                                            *)
(*                                                                         *)
(* Time is in milliseconds.  Every handler run (an event handler with the  *)
(* effect it triggers, a timer callback up to its first await, the         *)
(* continuation of the async function after the response) is one step.     *)
(***************************************************************************)
EXTENDS Integers, Sequences, FiniteSets, TLC

VARIABLES
    variant,        \* which version of the component is running
    mounted,        \* the component is on the page
    searchTerm, threshold, fast, limit, speed, dataset,   \* query parameters
    results, loading, error, timingMetrics,               \* request state
    now,            \* the clock (Date.now / performance.now), ms
    timerId,        \* due time of lodash's pending setTimeout, or NoTimer
    lastArgs,       \* lodash: arguments of the last debounced call, or NoArgs
    lastCallTime,   \* lodash: time of the last debounced call
    inflight,       \* requests sent and not yet completed
    issued,         \* history: number of requests sent so far
    editCount,      \* history: number of parameter edits so far
    resultsFrom,    \* history: id of the request whose response wrote results (0: none)
    timingFrom,     \* history: id of the request whose response wrote timing (0: none)
    lastEvent,      \* history: the handler that ran last
    lastEditTime,   \* history: time of the last parameter edit (or of the mount)
    burstStart,     \* history: time of the first edit of the current burst
    issuedInBurst,  \* history: requests sent since the current burst began
    lastIssued,     \* history: the request sent last, or NoRequest
    latestOk        \* history: the request sent last has completed with success

params == <<searchTerm, threshold, fast, limit, speed, dataset>>
reqState == <<results, loading, error, timingMetrics>>
debounceState == <<timerId, lastArgs, lastCallTime>>
provenance == <<resultsFrom, timingFrom, latestOk>>
bursts == <<lastEditTime, burstStart, issuedInBurst>>
history == <<issued, editCount, provenance, lastEvent, bursts, lastIssued>>
vars == <<variant, mounted, params, reqState, now, debounceState, inflight, history>>

----------------------------------------------------------------------------
(* Bounds of the model *)

MaxItems == 3                   \* items in a results array of SpecNorm
MaxWindows == 2     \* the clock runs for this many debounce windows
MaxEdits == 2       \* at most this many parameter edits

(* Program constants *)

Wait == 500                     \* _.debounce(..., 500)
NsPerMs == 1000000              \* embeddingsTime / 1_000_000

TickMs == Wait \div 2
MaxTime == MaxWindows * Wait

----------------------------------------------------------------------------
(* Values *)

Variants == {"extended", "simple"}

Undefined == [t |-> "undefined"]
Null == [t |-> "null"]
Arr(s) == [t |-> "array", items |-> s]
Str(s) == [t |-> "string", v |-> s]
Num(n) == [t |-> "number", v |-> n]

ErrNull == "<null>"
ErrorMessage == "Failed to fetch results. Please try again."

NoTimer == -1
NoArgs == [t |-> "undefined"]
NoRequest == [id |-> 0]

----------------------------------------------------------------------------
(* Inputs the user and the server can supply *)

Terms == {<<>>, <<" ">>, <<"a">>, <<"a", "&">>}
Thresholds == {50, 80}                     \* hundredths: 0.5, 0.8
LimitInputs == {<<"5">>, <<>>, <<"-", "5">>}           \* text typed into the limit field
Speeds == {0, 1, 2}
Datasets == {"reviews", "places"}
HttpErrorStatuses == {404, 500}

ProseText == "plain prose"
JsonText == "{\"name\":\"A\",\"score\":0.9}"
JsonOwnText == "{\"text\":\"inner\",\"location\":\"L\"}"
JsonNullText == "null"
JsonNumberText == "5"
JsonStringText == "\"abc\""
RawResultArrays ==
    { <<>>,
      <<[text |-> Str(ProseText)]>>,
      <<[text |-> Str(JsonText)], [text |-> Str(ProseText)]>> }

Bodies ==
    {Null} \cup
    { [t |-> "object", embedding_time |-> 30000000, search_time |-> 60000000,
       results |-> r] : r \in {Undefined} \cup {Arr(a) : a \in RawResultArrays} }
      \cup
    { [t |-> "object", embedding_time |-> 1500000, search_time |-> 999999,
       results |-> Arr(<<>>)] }

Outcomes ==
    {[kind |-> "network"], [kind |-> "badjson"]}
      \cup {[kind |-> "http", status |-> st] : st \in HttpErrorStatuses}
      \cup {[kind |-> "ok", body |-> b] : b \in Bodies}

----------------------------------------------------------------------------
(* parseInt(text, 10): leading whitespace, an optional sign, then the longest
   prefix of decimal digits; NaN when there is no digit. *)

DigitValue(c) ==
    CASE c = "0" -> 0 [] c = "1" -> 1 [] c = "2" -> 2 [] c = "3" -> 3
      [] c = "4" -> 4 [] c = "5" -> 5 [] c = "6" -> 6 [] c = "7" -> 7
      [] c = "8" -> 8 [] c = "9" -> 9 [] OTHER -> -1

IsWhitespace(c) == c \in {" ", "\t", "\n"}

RECURSIVE SkipWhitespace(_)
SkipWhitespace(s) ==
    IF s # <<>> /\ IsWhitespace(Head(s)) THEN SkipWhitespace(Tail(s)) ELSE s

RECURSIVE DigitsValue(_, _, _)
DigitsValue(s, acc, any) ==
    IF s # <<>> /\ DigitValue(Head(s)) >= 0
    THEN DigitsValue(Tail(s), 10 * acc + DigitValue(Head(s)), TRUE)
    ELSE [nan |-> ~any, v |-> acc]

ParseInt(text) ==
    LET s == SkipWhitespace(text)
        neg == s # <<>> /\ Head(s) = "-"
        body == IF s # <<>> /\ Head(s) \in {"-", "+"} THEN Tail(s) ELSE s
        d == DigitsValue(body, 0, FALSE)
    IN  [nan |-> d.nan, v |-> IF neg THEN 0 - d.v ELSE d.v]

\* parseInt(e.target.value, 10) || 1 : NaN and 0 are falsy
ParseLimit(text) ==
    LET n == ParseInt(text) IN IF n.nan \/ n.v = 0 THEN 1 ELSE n.v

----------------------------------------------------------------------------
(* Result normalization of the extended variant *)

\* JSON.parse on the texts the model's server sends (0.9 is held in tenths);
\* an argument that is not a string is converted to one first, and
\* "undefined" is not JSON
JSONParse(text) ==
    CASE text = Str(JsonText) ->
            [ok |-> TRUE,
             value |-> [t |-> "object",
                        fields |-> [name |-> Str("A"), score |-> Num(9)]]]
      [] text = Str(JsonOwnText) ->
            [ok |-> TRUE,
             value |-> [t |-> "object",
                        fields |-> [text |-> Str("inner"), location |-> Str("L")]]]
      [] text = Str(JsonNullText) -> [ok |-> TRUE, value |-> Null]
      [] text = Str(JsonNumberText) -> [ok |-> TRUE, value |-> Num(5)]
      [] text = Str(JsonStringText) -> [ok |-> TRUE, value |-> Str("abc")]
      [] OTHER -> [ok |-> FALSE, value |-> Undefined]

\* reading a property of null or undefined throws a TypeError
ReadThrows(value) == value \in {Null, Undefined}

\* jsonData[key]: the field of a parsed object, undefined when it is absent
\* and for the name, location, summary, text, score of a number or a string
Get(jsonData, key) ==
    IF jsonData.t = "object" /\ key \in DOMAIN jsonData.fields
    THEN jsonData.fields[key]
    ELSE Undefined

\* result.text for a raw item that is an object
Field(result, key) == IF key \in DOMAIN result THEN result[key] ELSE Undefined

\* (a variant of ProjectedText that keeps the text of the raw item)
OuterText(jsonData, result) == Field(result, "text")

\* text: jsonData['text']
ProjectedText(jsonData, result) == Get(jsonData, "text")

\* (a variant of Fallback that drops the text)
FallbackEmpty(result) == [text |-> Undefined]

\* catch (e) { return { text: result.text } }
Fallback(result) == [text |-> Field(result, "text")]

\* the callback of rawResults.map for a raw item that is an object
ProcessResult(result) ==
    LET parsed == JSONParse(Field(result, "text"))
    IN  IF parsed.ok /\ ~ReadThrows(parsed.value)
        THEN [name |-> Get(parsed.value, "name"),
              location |-> Get(parsed.value, "location"),
              summary |-> Get(parsed.value, "summary"),
              text |-> ProjectedText(parsed.value, result),
              score |-> Get(parsed.value, "score")]
        ELSE Fallback(result)

\* the callback throws when the raw item itself is null or undefined:
\* result.text throws in the try block and again in the catch block
ItemThrows(result) == ReadThrows(result)

\* (a variant of ProcessResults that stops at the first item it cannot decode)
RECURSIVE ProcessUntilFailure(_)
ProcessUntilFailure(rawResults) ==
    IF rawResults = <<>> \/ ~JSONParse(Field(Head(rawResults), "text")).ok
    THEN <<>>
    ELSE <<ProcessResult(Head(rawResults))>> \o ProcessUntilFailure(Tail(rawResults))

ProcessResults(rawResults) ==
    [i \in 1..Len(rawResults) |-> ProcessResult(rawResults[i])]

\* ns / 1_000_000 as an exact quotient: whole milliseconds and the remainder
ToMs(ns) == [ms |-> ns \div NsPerMs, rem |-> ns % NsPerMs]

----------------------------------------------------------------------------
(* The request URL.  Text is a sequence of one-character strings. *)

UnreservedChars ==
    {"a", "b", "c", "d", "e", "f", "g", "h", "i", "j", "k", "l", "m", "n", "o",
     "p", "q", "r", "s", "t", "u", "v", "w", "x", "y", "z",
     "A", "B", "C", "D", "E", "F", "G", "H", "I", "J", "K", "L", "M", "N", "O",
     "P", "Q", "R", "S", "T", "U", "V", "W", "X", "Y", "Z",
     "0", "1", "2", "3", "4", "5", "6", "7", "8", "9",
     "-", "_", ".", "!", "~", "*", "'", "(", ")"}

\* the %XX escape of a reserved ASCII character
PercentCode(c) ==
    CASE c = " " -> <<"%", "2", "0">>
      [] c = "#" -> <<"%", "2", "3">>
      [] c = "%" -> <<"%", "2", "5">>
      [] c = "&" -> <<"%", "2", "6">>
      [] c = "+" -> <<"%", "2", "B">>
      [] c = "/" -> <<"%", "2", "F">>
      [] c = "=" -> <<"%", "3", "D">>
      [] c = "?" -> <<"%", "3", "F">>

\* (a variant of EncodeURIComponent that interpolates the term as it is)
NoEncoding(text) == text

RECURSIVE EncodeURIComponent(_)
EncodeURIComponent(text) ==
    IF text = <<>> THEN <<>>
    ELSE (IF Head(text) \in UnreservedChars THEN <<Head(text)>>
          ELSE PercentCode(Head(text))) \o EncodeURIComponent(Tail(text))

DigitChar(d) ==
    CASE d = 0 -> "0" [] d = 1 -> "1" [] d = 2 -> "2" [] d = 3 -> "3"
      [] d = 4 -> "4" [] d = 5 -> "5" [] d = 6 -> "6" [] d = 7 -> "7"
      [] d = 8 -> "8" [] d = 9 -> "9"

RECURSIVE NatToChars(_)
NatToChars(n) ==
    IF n < 10 THEN <<DigitChar(n)>>
    ELSE NatToChars(n \div 10) \o <<DigitChar(n % 10)>>

\* `${n}` for an integer
IntToChars(n) == IF n < 0 THEN <<"-">> \o NatToChars(0 - n) ELSE NatToChars(n)

\* `${threshold}` for a threshold held in hundredths (50 is 0.5, 100 is 1)
ThresholdToChars(h) ==
    LET f == h % 100
    IN  NatToChars(h \div 100) \o
        (IF f = 0 THEN <<>>
         ELSE IF f % 10 = 0 THEN <<".", DigitChar(f \div 10)>>
         ELSE <<".", DigitChar(f \div 10), DigitChar(f % 10)>>)

\* `${fast}`
BoolToChars(b) ==
    IF b THEN <<"t", "r", "u", "e">> ELSE <<"f", "a", "l", "s", "e">>

\* `${dataset}`: the dataset name, character by character, not encoded
DatasetChars(ds) ==
    IF ds = "reviews" THEN <<"r", "e", "v", "i", "e", "w", "s">>
    ELSE <<"p", "l", "a", "c", "e", "s">>

\* the query string of the template literal handed to fetch
QueryString(v, args) ==
    <<"s", "e", "a", "r", "c", "h", "=">> \o EncodeURIComponent(args.search)
      \o <<"&", "o", "p", "t", "i", "m", "i", "z", "e", "d", "=">>
      \o BoolToChars(args.fast)
      \o <<"&", "l", "i", "m", "i", "t", "=">> \o IntToChars(args.limit)
      \o <<"&", "t", "h", "r", "e", "s", "h", "o", "l", "d", "=">>
      \o ThresholdToChars(args.threshold)
      \o (IF v = "extended"
          THEN <<"&", "s", "p", "e", "e", "d", "=">> \o IntToChars(args.speed)
                 \o <<"&", "d", "a", "t", "a", "s", "e", "t", "=">>
                 \o DatasetChars(args.dataset)
          ELSE <<>>)

\* fetch(url): a GET of /search with the query string
Url(v, args) == [method |-> "GET", path |-> "/search", query |-> QueryString(v, args)]

----------------------------------------------------------------------------
(* The debounced function: _.debounce(func, 500), trailing edge only *)

\* (a variant of Args that reads the values of the render before the edit)
StaleArgs(v, search, th, fa, li, sp, ds) ==
    IF v = "extended"
    THEN [search |-> searchTerm, threshold |-> threshold, fast |-> fast,
          limit |-> limit, speed |-> speed, dataset |-> dataset]
    ELSE [search |-> searchTerm, threshold |-> threshold, fast |-> fast,
          limit |-> limit]

\* the arguments the effect passes to debouncedSearch
Args(v, search, th, fa, li, sp, ds) ==
    IF v = "extended"
    THEN [search |-> search, threshold |-> th, fast |-> fa, limit |-> li,
          speed |-> sp, dataset |-> ds]
    ELSE [search |-> search, threshold |-> th, fast |-> fa, limit |-> li]

\* (a variant of ShouldInvoke with maxWait = wait: a burst cannot defer the call)
ShouldInvokeMaxWait(time) ==
    time - lastCallTime >= Wait \/ time - burstStart >= Wait

\* lodash shouldInvoke(time), for a debounce without maxWait
ShouldInvoke(time) == time - lastCallTime >= Wait

\* lodash remainingWait(time), for a debounce without maxWait
RemainingWait(time) == Wait - (time - lastCallTime)

\* (a variant of StartTimer that starts no timer when none is pending)
KeepTimer(time) == timerId

\* lodash debounced(): remember the arguments and the call time; start the
\* timer unless one is pending (leading is false: nothing is invoked here)
StartTimer(time) == IF timerId = NoTimer THEN time + Wait ELSE timerId

Debounced(args) ==
    /\ lastArgs' = args
    /\ lastCallTime' = now
    /\ timerId' = StartTimer(now)

\* (a variant of Effect that also empties the results as soon as a parameter
\* changes)
EffectClearing(search, th, fa, li, sp, ds) ==
    /\ Debounced(Args(variant, search, th, fa, li, sp, ds))
    /\ editCount' = editCount + 1
    /\ lastEditTime' = now
    /\ burstStart' = IF now - lastEditTime < Wait THEN burstStart ELSE now
    /\ issuedInBurst' = IF now - lastEditTime < Wait THEN issuedInBurst ELSE 0
    /\ results' = Arr(<<>>)
    /\ UNCHANGED <<variant, mounted, loading, error, timingMetrics, now, inflight,
                   issued, provenance, lastIssued>>

\* useEffect: call debouncedSearch with the values of the new render.  The
\* effect runs only when one of its dependencies changed.
Effect(search, th, fa, li, sp, ds) ==
    /\ Debounced(Args(variant, search, th, fa, li, sp, ds))
    /\ editCount' = editCount + 1
    /\ lastEditTime' = now
    /\ burstStart' = IF now - lastEditTime < Wait THEN burstStart ELSE now
    /\ issuedInBurst' = IF now - lastEditTime < Wait THEN issuedInBurst ELSE 0
    /\ UNCHANGED <<variant, mounted, reqState, now, inflight, issued, provenance, lastIssued>>

CanEdit == editCount < MaxEdits /\ now + Wait <= MaxTime

----------------------------------------------------------------------------
(* Initial state: the first render, after which the effect has run once *)

Init ==
    /\ variant \in Variants
    /\ mounted = TRUE
    /\ searchTerm = <<>>
    /\ threshold = 50
    /\ fast = FALSE
    /\ limit = 10
    /\ speed = 0
    /\ dataset = "reviews"
    /\ results = Arr(<<>>)
    /\ loading = FALSE
    /\ error = ErrNull
    /\ timingMetrics = Null
    /\ now = 0
    /\ timerId = Wait
    /\ lastArgs = Args(variant, <<>>, 50, FALSE, 10, 0, "reviews")
    /\ lastCallTime = 0
    /\ inflight = {}
    /\ issued = 0
    /\ editCount = 0
    /\ resultsFrom = 0
    /\ timingFrom = 0
    /\ latestOk = FALSE
    /\ lastEvent = [type |-> "mount"]
    /\ lastEditTime = 0
    /\ burstStart = 0
    /\ issuedInBurst = 0
    /\ lastIssued = NoRequest

----------------------------------------------------------------------------
(* Parameter edits: the event handler and the effect of the render it causes *)

handleSearchChange(value) ==
    /\ CanEdit
    /\ value # searchTerm
    /\ searchTerm' = value
    /\ Effect(value, threshold, fast, limit, speed, dataset)
    /\ lastEvent' = [type |-> "edit", field |-> "searchTerm"]
    /\ UNCHANGED <<threshold, fast, limit, speed, dataset>>

handleThresholdChange(value) ==
    /\ CanEdit
    /\ value # threshold
    /\ threshold' = value
    /\ Effect(searchTerm, value, fast, limit, speed, dataset)
    /\ lastEvent' = [type |-> "edit", field |-> "threshold"]
    /\ UNCHANGED <<searchTerm, fast, limit, speed, dataset>>

handleLimitChange(text) ==
    /\ CanEdit
    /\ ParseLimit(text) # limit
    /\ limit' = ParseLimit(text)
    /\ Effect(searchTerm, threshold, fast, ParseLimit(text), speed, dataset)
    /\ lastEvent' = [type |-> "edit", field |-> "limit"]
    /\ UNCHANGED <<searchTerm, threshold, fast, speed, dataset>>

handleFastToggle ==
    /\ CanEdit
    /\ fast' = ~fast
    /\ Effect(searchTerm, threshold, ~fast, limit, speed, dataset)
    /\ lastEvent' = [type |-> "edit", field |-> "fast"]
    /\ UNCHANGED <<searchTerm, threshold, limit, speed, dataset>>

handleSpeedChange(newSpeed) ==
    /\ CanEdit
    /\ variant = "extended"
    /\ newSpeed # speed
    /\ speed' = newSpeed
    /\ Effect(searchTerm, threshold, fast, limit, newSpeed, dataset)
    /\ lastEvent' = [type |-> "edit", field |-> "speed"]
    /\ UNCHANGED <<searchTerm, threshold, fast, limit, dataset>>

handleDatasetChange(newDataset) ==
    /\ CanEdit
    /\ variant = "extended"
    /\ newDataset # dataset
    /\ dataset' = newDataset
    /\ Effect(searchTerm, threshold, fast, limit, speed, newDataset)
    /\ lastEvent' = [type |-> "edit", field |-> "dataset"]
    /\ UNCHANGED <<searchTerm, threshold, fast, limit, speed>>

----------------------------------------------------------------------------
(* Time *)

TimerDue == timerId # NoTimer /\ now >= timerId

\* the clock advances; a due timer callback runs before the clock moves on
Tick ==
    /\ ~TimerDue
    /\ now + TickMs <= MaxTime
    /\ now' = now + TickMs
    /\ lastEvent' = [type |-> "tick"]
    /\ UNCHANGED <<variant, mounted, params, reqState, debounceState, inflight,
                   issued, editCount, provenance, bursts, lastIssued>>

----------------------------------------------------------------------------
(* The timer callback (lodash timerExpired) and the debounced function *)

\* (a variant of Falsy that trims: a term made of whitespace counts as empty)
FalsyTrimmed(search) == \A i \in 1..Len(search) : IsWhitespace(search[i])

\* if (!search): only the empty string is falsy
Falsy(search) == Len(search) = 0

\* (a variant of EmptyResults that keeps what is in state)
StaleResults == results

\* setResults([]) of the empty-term branch
EmptyResults == Arr(<<>>)

\* timerExpired when the last call is younger than the wait: restart the timer
TimerRestart ==
    /\ TimerDue
    /\ ~ShouldInvoke(now)
    /\ timerId' = now + RemainingWait(now)
    /\ lastEvent' = [type |-> "restart"]
    /\ UNCHANGED <<variant, mounted, params, reqState, now, lastArgs, lastCallTime, inflight,
                   issued, editCount, provenance, bursts, lastIssued>>

\* trailingEdge, func called with an empty term: reset results and timing, return
SearchReset ==
    /\ TimerDue
    /\ ShouldInvoke(now)
    /\ Falsy(lastArgs.search)
    /\ timerId' = NoTimer
    /\ lastArgs' = NoArgs
    /\ results' = EmptyResults
    /\ timingMetrics' = Null
    /\ resultsFrom' = 0
    /\ timingFrom' = 0
    /\ lastEvent' = [type |-> "reset", hadResults |-> results # Arr(<<>>),
                     hadError |-> error # ErrNull]
    /\ UNCHANGED <<variant, mounted, params, loading, error, now, lastCallTime, inflight,
                   issued, editCount, latestOk, bursts, lastIssued>>

\* (a variant of ResultsAtStart that empties the list when a request starts)
ClearedAtStart == Arr(<<>>)

\* setLoading(true); setError(null); setTimingMetrics(null): no setResults
ResultsAtStart == results

\* trailingEdge, func called with a term: the code up to `await fetch(url)`
SearchStart ==
    /\ TimerDue
    /\ ShouldInvoke(now)
    /\ ~Falsy(lastArgs.search)
    /\ timerId' = NoTimer
    /\ lastArgs' = NoArgs
    /\ loading' = TRUE
    /\ error' = ErrNull
    /\ timingMetrics' = Null
    /\ timingFrom' = 0
    /\ LET req == [id |-> issued + 1, args |-> lastArgs, startTime |-> now,
                   overlaps |-> inflight # {}, url |-> Url(variant, lastArgs),
                   edits |-> editCount]
       IN  /\ inflight' = inflight \cup {req}
           /\ lastIssued' = req
    /\ issued' = issued + 1
    /\ issuedInBurst' = issuedInBurst + 1
    /\ latestOk' = FALSE
    /\ lastEvent' = [type |-> "start", id |-> issued + 1]
    /\ results' = ResultsAtStart
    /\ UNCHANGED <<variant, mounted, params, now, lastCallTime, editCount,
                   resultsFrom, lastEditTime, burstStart>>

----------------------------------------------------------------------------
(* The rest of the debounced function: the response arrives *)

NoThrow == "none"

StatusText(status) == IF status = 404 THEN "404" ELSE "500"

\* what the try block throws for an outcome of the request, if anything
Thrown(outcome) ==
    CASE outcome.kind = "network" -> "TypeError: Failed to fetch"
      [] outcome.kind = "http" -> "HTTP error! Status: " \o StatusText(outcome.status)
      [] outcome.kind = "badjson" -> "SyntaxError: Unexpected token in JSON"
      [] outcome.kind = "ok" ->
            IF outcome.body = Null
            THEN "TypeError: Cannot read properties of null"
            ELSE IF variant = "extended" /\ outcome.body.results = Undefined
                 THEN "TypeError: Cannot read properties of undefined"
                 ELSE IF /\ variant = "extended"
                         /\ \E i \in DOMAIN outcome.body.results.items :
                               ItemThrows(outcome.body.results.items[i])
                      THEN "TypeError: Cannot read properties of null"
                      ELSE NoThrow

\* setTimingMetrics is reached: the body was decoded and is not null
ReachesTiming(outcome) == outcome.kind = "ok" /\ outcome.body # Null

\* (a variant of FailureMessage that shows the caught error)
RawMessage(err) == err

\* catch (err): setError('Failed to fetch results. Please try again.')
FailureMessage(err) == ErrorMessage

\* (a variant of LoadingAfter with setLoading(false) as the last line of the try
\* block instead of a finally block)
LoadingAfterTryOnly(outcome) ==
    IF Thrown(outcome) = NoThrow THEN FALSE ELSE loading

\* finally { setLoading(false) }
LoadingAfter(outcome) == FALSE

\* (a variant of StartOf that reads a start time shared by all requests)
SharedStart(req) == lastIssued.startTime

\* const startTime = performance.now(): a local of the call that sent req
StartOf(req) == req.startTime

\* (a variant of DebounceAfterComplete that sends the request again, a wait
\* after it failed)
RetryAfterFailure(req, outcome) ==
    IF Thrown(outcome) = NoThrow
    THEN [timerId |-> timerId, lastArgs |-> lastArgs, lastCallTime |-> lastCallTime]
    ELSE [timerId |-> now + Wait, lastArgs |-> req.args, lastCallTime |-> now]

\* the catch and finally blocks do not call debouncedSearch: the timer and
\* the pending arguments are as they were
DebounceAfterComplete(req, outcome) ==
    [timerId |-> timerId, lastArgs |-> lastArgs, lastCallTime |-> lastCallTime]

\* data['embedding_time'], data['search_time'] of a decoded body
BodyTimes(outcome) ==
    IF ReachesTiming(outcome)
    THEN [embedding |-> outcome.body.embedding_time, search |-> outcome.body.search_time]
    ELSE Undefined

\* the TimingMetrics object built from the body and the two clock readings
Timing(body, startTime, endTime) ==
    [embeddings |-> ToMs(body.embedding_time),
     search |-> ToMs(body.search_time),
     total |-> endTime - startTime]

\* data['results'] of a body that was decoded, undefined when there is none
RawResults(outcome) ==
    IF ReachesTiming(outcome) THEN outcome.body.results ELSE Undefined

\* the value handed to setResults
NewResults(body) ==
    IF variant = "extended"
    THEN Arr(ProcessResults(body.results.items))
    ELSE body.results

SearchComplete(req, outcome) ==
    /\ req \in inflight
    /\ inflight' = inflight \ {req}
    /\ IF ReachesTiming(outcome)
       THEN /\ timingMetrics' = Timing(outcome.body, StartOf(req), now)
            /\ timingFrom' = req.id
       ELSE UNCHANGED <<timingMetrics, timingFrom>>
    /\ IF Thrown(outcome) = NoThrow
       THEN /\ results' = NewResults(outcome.body)
            /\ resultsFrom' = req.id
            /\ UNCHANGED error
       ELSE /\ error' = FailureMessage(Thrown(outcome))
            /\ UNCHANGED <<results, resultsFrom>>
    /\ loading' = LoadingAfter(outcome)
    /\ latestOk' = IF req.id = issued THEN Thrown(outcome) = NoThrow ELSE latestOk
    /\ lastEvent' = [type |-> "complete", id |-> req.id, kind |-> outcome.kind,
                     success |-> Thrown(outcome) = NoThrow,
                     raw |-> RawResults(outcome), ns |-> BodyTimes(outcome),
                     overlapped |-> req.overlaps \/ issued > req.id]
    /\ timerId' = DebounceAfterComplete(req, outcome).timerId
    /\ lastArgs' = DebounceAfterComplete(req, outcome).lastArgs
    /\ lastCallTime' = DebounceAfterComplete(req, outcome).lastCallTime
    /\ UNCHANGED <<variant, mounted, params, now, issued, editCount, bursts, lastIssued>>

----------------------------------------------------------------------------

Next ==
    \/ \E value \in Terms : handleSearchChange(value)
    \/ \E value \in Thresholds : handleThresholdChange(value)
    \/ \E text \in LimitInputs : handleLimitChange(text)
    \/ handleFastToggle
    \/ \E newSpeed \in Speeds : handleSpeedChange(newSpeed)
    \/ \E newDataset \in Datasets : handleDatasetChange(newDataset)
    \/ Tick
    \/ TimerRestart
    \/ SearchReset
    \/ SearchStart
    \/ \E req \in inflight : \E outcome \in Outcomes : SearchComplete(req, outcome)

Spec == Init /\ [][Next]_vars

\* the callback of a due timer runs
TimerFires == TimerRestart \/ SearchReset \/ SearchStart

\* any parameter edit
Edits ==
    \/ \E value \in Terms : handleSearchChange(value)
    \/ \E value \in Thresholds : handleThresholdChange(value)
    \/ \E text \in LimitInputs : handleLimitChange(text)
    \/ handleFastToggle
    \/ \E newSpeed \in Speeds : handleSpeedChange(newSpeed)
    \/ \E newDataset \in Datasets : handleDatasetChange(newDataset)

\* for progress a request either fails or succeeds: one outcome of each kind
LiveOutcomes ==
    { [kind |-> "network"],
      [kind |-> "ok",
       body |-> [t |-> "object", embedding_time |-> 30000000,
                 search_time |-> 60000000,
                 results |-> Arr(<<[text |-> Str(ProseText)]>>)]] }

\* a request in flight completes, one way or the other
Completes ==
    \E req \in inflight : \E outcome \in LiveOutcomes : SearchComplete(req, outcome)

NextLive == Edits \/ Tick \/ TimerFires \/ Completes

\* the clock advances, a due timer callback is run by the event loop, and every
\* request sent is eventually answered or fails; edits are under no obligation
SpecLive ==
    /\ Init
    /\ [][NextLive]_vars
    /\ WF_vars(Tick)
    /\ WF_vars(TimerFires)
    /\ WF_vars(Completes)

----------------------------------------------------------------------------
(* Teardown.  The effect returns no cleanup function, debouncedSearch.cancel is
   never called and fetch gets no AbortSignal: unmounting leaves the timer and
   the requests as they are.  React ignores the state setters of a component
   that is no longer mounted. *)

Unmount ==
    /\ mounted
    /\ mounted' = FALSE
    /\ lastEvent' = [type |-> "unmount", issued |-> issued]
    /\ UNCHANGED <<variant, params, reqState, now, debounceState, inflight,
                   issued, editCount, provenance, bursts, lastIssued>>

\* the timer fires after the unmount with an empty term: the setters do nothing
SearchResetUnmounted ==
    /\ ~mounted
    /\ TimerDue
    /\ ShouldInvoke(now)
    /\ Falsy(lastArgs.search)
    /\ timerId' = NoTimer
    /\ lastArgs' = NoArgs
    /\ lastEvent' = [type |-> "reset after unmount"]
    /\ UNCHANGED <<variant, mounted, params, reqState, now, lastCallTime, inflight,
                   issued, editCount, provenance, bursts, lastIssued>>

\* the timer fires after the unmount with a term: the setters do nothing and
\* fetch is called all the same
SearchStartUnmounted ==
    /\ ~mounted
    /\ TimerDue
    /\ ShouldInvoke(now)
    /\ ~Falsy(lastArgs.search)
    /\ timerId' = NoTimer
    /\ lastArgs' = NoArgs
    /\ LET req == [id |-> issued + 1, args |-> lastArgs, startTime |-> now,
                   overlaps |-> inflight # {}, url |-> Url(variant, lastArgs),
                   edits |-> editCount]
       IN  /\ inflight' = inflight \cup {req}
           /\ lastIssued' = req
    /\ issued' = issued + 1
    /\ issuedInBurst' = issuedInBurst + 1
    /\ lastEvent' = [type |-> "start after unmount", id |-> issued + 1]
    /\ UNCHANGED <<variant, mounted, params, reqState, now, lastCallTime, editCount,
                   provenance, lastEditTime, burstStart>>

\* a response arrives after the unmount: whatever it is, the setters do nothing
SearchCompleteUnmounted(req) ==
    /\ ~mounted
    /\ req \in inflight
    /\ inflight' = inflight \ {req}
    /\ lastEvent' = [type |-> "complete after unmount", id |-> req.id]
    /\ UNCHANGED <<variant, mounted, params, reqState, now, debounceState,
                   issued, editCount, provenance, bursts, lastIssued>>

NextTeardown ==
    \/ mounted /\ Next
    \/ Unmount
    \/ ~mounted /\ Tick
    \/ ~mounted /\ TimerRestart
    \/ SearchResetUnmounted
    \/ SearchStartUnmounted
    \/ \E req \in inflight : SearchCompleteUnmounted(req)

SpecTeardown == Init /\ [][NextTeardown]_vars

----------------------------------------------------------------------------
(* Normalization on its own: the extended variant with one request sent
   ("a" typed at mount, the window settled at 500 ms), completed by a decoded
   body whose results array is any sequence of up to MaxItems raw items *)

RawItems ==
    { [text |-> Str(JsonText)],
      [text |-> Str(JsonOwnText)],
      [text |-> Str(JsonNullText)],
      [text |-> Str(JsonNumberText)],
      [text |-> Str(JsonStringText)],
      [text |-> Str(ProseText)],
      [score |-> Num(1)],
      Null }

RawArrays == UNION { [1..n -> RawItems] : n \in 0..MaxItems }

NormOutcomes ==
    { [kind |-> "ok",
       body |-> [t |-> "object", embedding_time |-> 30000000,
                 search_time |-> 60000000, results |-> Arr(a)]] : a \in RawArrays }

FirstArgs == Args("extended", <<"a">>, 50, FALSE, 10, 0, "reviews")

FirstRequest ==
    [id |-> 1, args |-> FirstArgs, startTime |-> Wait, overlaps |-> FALSE,
     url |-> Url("extended", FirstArgs), edits |-> 1]

InitNorm ==
    /\ variant = "extended"
    /\ mounted = TRUE
    /\ searchTerm = <<"a">>
    /\ threshold = 50
    /\ fast = FALSE
    /\ limit = 10
    /\ speed = 0
    /\ dataset = "reviews"
    /\ results = Arr(<<>>)
    /\ loading = TRUE
    /\ error = ErrNull
    /\ timingMetrics = Null
    /\ now = Wait
    /\ timerId = NoTimer
    /\ lastArgs = NoArgs
    /\ lastCallTime = 0
    /\ inflight = {FirstRequest}
    /\ issued = 1
    /\ editCount = 1
    /\ resultsFrom = 0
    /\ timingFrom = 0
    /\ latestOk = FALSE
    /\ lastEvent = [type |-> "start", id |-> 1]
    /\ lastEditTime = 0
    /\ burstStart = 0
    /\ issuedInBurst = 1
    /\ lastIssued = FirstRequest

NextNorm ==
    \E req \in inflight : \E outcome \in NormOutcomes : SearchComplete(req, outcome)

SpecNorm == InitNorm /\ [][NextNorm]_vars

----------------------------------------------------------------------------
(* Properties *)

CurrentArgs == Args(variant, searchTerm, threshold, fast, limit, speed, dataset)

\* the window after the last edit has elapsed and the timer callback has run
Settled == now - lastEditTime >= Wait /\ ~TimerDue

\* C1: a burst of edits, each less than 500 ms after the previous one, that
\* ends with a non-empty term gets exactly one request; the request is sent
\* no earlier than 500 ms after the last edit of the burst and carries the
\* parameter values of that moment; nothing stays queued after it.
C1_OneRequestPerBurst ==
    /\ issuedInBurst <= 1
    /\ (Settled /\ ~Falsy(searchTerm)) =>
          /\ issuedInBurst = 1
          /\ lastIssued.args = CurrentArgs
          /\ lastIssued.startTime >= lastEditTime + Wait
          /\ timerId = NoTimer
          /\ lastArgs = NoArgs

\* a burst of several calls has settled on a non-empty term and was sent once
C1_Witness ==
    /\ Settled
    /\ ~Falsy(searchTerm)
    /\ lastEditTime > burstStart
    /\ editCount >= 2
    /\ issuedInBurst = 1

\* C10: while edits keep arriving less than 500 ms apart no request is sent,
\* however long the burst has lasted.
C10_NoRequestDuringBurst ==
    (now - lastEditTime < Wait \/ TimerDue) => issuedInBurst = 0

\* a burst that has lasted a whole window or more, still without a request
C10_Witness ==
    /\ now - burstStart >= Wait
    /\ now - lastEditTime < Wait
    /\ ~Falsy(searchTerm)
    /\ lastEvent.type = "edit"
    /\ issuedInBurst = 0

IsBlank(search) == \A i \in 1..Len(search) : IsWhitespace(search[i])

\* C2: with no request in flight, results and timing are those of the
\* response to the request sent last; the response to an older request never
\* replaces them, in whatever order the two responses arrive.
C2_LatestResponseShown ==
    (inflight = {} /\ latestOk) =>
        /\ resultsFrom \in {0, issued}
        /\ timingFrom \in {0, issued}

\* C3: once the window has settled on an empty term the controller is Idle
\* (results empty, timing null, error null, loading false) and has sent no
\* request, whatever the state was before, also after an error and also when
\* a request was in flight when the term was cleared.
C3_ClearingYieldsIdle ==
    (Settled /\ Len(searchTerm) = 0) =>
        /\ results = Arr(<<>>)
        /\ timingMetrics = Null
        /\ error = ErrNull
        /\ loading = FALSE
        /\ issuedInBurst = 0

\* C4 (as stated): right after the edit that empties the term, results and
\* timing of an earlier request are no longer held.
C4_ResetAtEdit ==
    (lastEvent.type = "edit" /\ Len(searchTerm) = 0) =>
        /\ results = Arr(<<>>)
        /\ timingMetrics = Null

\* C4 (amended): an edit leaves results and timing as they are; they are
\* reset when the timer callback runs with the empty term, 500 ms or more
\* after the last edit.
C4_ResetWhenWindowSettles ==
    [][ /\ lastEvent'.type = "edit" =>
             /\ results' = results
             /\ timingMetrics' = timingMetrics
        /\ lastEvent'.type = "reset" =>
             /\ results' = Arr(<<>>)
             /\ timingMetrics' = Null
             /\ Len(searchTerm') = 0
             /\ now' >= lastEditTime' + Wait ]_vars

\* the timer callback has reset results that an earlier request had populated
C4_Witness ==
    /\ lastEvent.type = "reset"
    /\ lastEvent.hadResults
    /\ results = Arr(<<>>)

\* C5 (as stated): a request is never sent for a blank term (empty or made
\* only of whitespace).
C5_BlankNeverSent ==
    lastEvent.type = "start" => ~IsBlank(lastIssued.args.search)

\* C5 (amended): no request is sent for the empty term; a term made only of
\* whitespace is not empty and is sent like any other term.
C5_OnlyEmptyShortCircuits ==
    /\ lastEvent.type = "start" => Len(lastIssued.args.search) > 0
    /\ (Settled /\ Len(searchTerm) = 0) => issuedInBurst = 0
    /\ (Settled /\ Len(searchTerm) > 0 /\ IsBlank(searchTerm)) =>
          /\ issuedInBurst = 1
          /\ lastIssued.args.search = searchTerm

\* the window has settled on a whitespace-only term, which was sent
C5_Witness ==
    /\ Settled
    /\ searchTerm = <<" ">>
    /\ issuedInBurst = 1
    /\ lastIssued.args.search = <<" ">>

\* C6 (as stated): after a non-2xx response error is the generic message and
\* results are empty.
C6_HttpErrorEmptiesResults ==
    (lastEvent.type = "complete" /\ lastEvent.kind = "http") =>
        /\ error = ErrorMessage
        /\ results = Arr(<<>>)

\* C6 (amended): a non-2xx response sets error to the generic message, the
\* same for every status, and loading to false; it leaves results and timing
\* as they were.
C6_HttpErrorKeepsResults ==
    [][ (inflight' # inflight /\ lastEvent'.type = "complete"
                              /\ lastEvent'.kind = "http") =>
            /\ error' = "Failed to fetch results. Please try again."
            /\ loading' = FALSE
            /\ results' = results
            /\ timingMetrics' = timingMetrics ]_vars

\* a non-2xx response has arrived while results of an earlier request are held
C6_Witness ==
    /\ lastEvent.type = "complete"
    /\ lastEvent.kind = "http"
    /\ error = ErrorMessage
    /\ results # Arr(<<>>)

\* C7: every failure of a request (transport, non-2xx status, undecodable
\* body) leaves the same fixed message in error; error never holds anything
\* else.
C7_OneGenericMessage ==
    /\ error \in {ErrNull, "Failed to fetch results. Please try again."}
    /\ (lastEvent.type = "complete" /\ ~lastEvent.success) =>
          error = "Failed to fetch results. Please try again."

\* a body that is not JSON has produced the generic message
C7_Witness ==
    /\ lastEvent.type = "complete"
    /\ lastEvent.kind = "badjson"
    /\ error = ErrorMessage

StatesHeld ==
    (IF loading THEN 1 ELSE 0) + (IF error # ErrNull THEN 1 ELSE 0)
        + (IF timingMetrics # Null THEN 1 ELSE 0)

\* C8: at most one of Loading, Error and Success holds, and when none holds
\* the controller is Idle with empty results.
C8_ExactlyOneState ==
    /\ StatesHeld <= 1
    /\ StatesHeld = 0 => results = Arr(<<>>)

\* C9: when two requests overlap and both have completed, the state is the
\* outcome of the one that completed last: its Success (its results and
\* timing, no error) or its Error.
C9_LastCompletionWins ==
    (lastEvent.type = "complete" /\ lastEvent.overlapped /\ inflight = {}) =>
        IF lastEvent.success
        THEN /\ resultsFrom = lastEvent.id
             /\ timingFrom = lastEvent.id
             /\ error = ErrNull
        ELSE error = ErrorMessage

\* C11: every completion of a request, whatever its outcome (success, non-2xx
\* status, transport failure, undecodable body, exception while the body is
\* processed), leaves loading false.
C11_CompletionClearsLoading ==
    [][ (inflight' # inflight /\ lastEvent'.type = "complete") =>
            loading' = FALSE ]_vars

\* a request whose body made the processing throw has completed while the
\* spinner was on
C11_Witness ==
    /\ lastEvent.type = "complete"
    /\ lastEvent.kind = "ok"
    /\ ~lastEvent.success
    /\ ~lastEvent.overlapped
    /\ loading = FALSE

(* How a server reads a query string: split at "&", then at the first "=" *)

RECURSIVE UpTo(_, _)
UpTo(text, sep) ==
    IF text = <<>> \/ Head(text) = sep THEN <<>>
    ELSE <<Head(text)>> \o UpTo(Tail(text), sep)

RECURSIVE After(_, _)
After(text, sep) ==
    IF text = <<>> THEN <<>>
    ELSE IF Head(text) = sep THEN Tail(text) ELSE After(Tail(text), sep)

RECURSIVE ParseQuery(_)
ParseQuery(query) ==
    LET part == UpTo(query, "&")
        pair == [name |-> UpTo(part, "="), value |-> After(part, "=")]
    IN  IF Len(part) = Len(query) THEN <<pair>>
        ELSE <<pair>> \o ParseQuery(After(query, "&"))

PercentChar(a, b) ==
    CASE <<a, b>> = <<"2", "0">> -> " "
      [] <<a, b>> = <<"2", "3">> -> "#"
      [] <<a, b>> = <<"2", "5">> -> "%"
      [] <<a, b>> = <<"2", "6">> -> "&"
      [] <<a, b>> = <<"2", "B">> -> "+"
      [] <<a, b>> = <<"2", "F">> -> "/"
      [] <<a, b>> = <<"3", "D">> -> "="
      [] <<a, b>> = <<"3", "F">> -> "?"
      [] OTHER -> "?"

RECURSIVE DecodeURIComponent(_)
DecodeURIComponent(text) ==
    IF text = <<>> THEN <<>>
    ELSE IF Head(text) = "%" /\ Len(text) >= 3
         THEN <<PercentChar(text[2], text[3])>>
                \o DecodeURIComponent(SubSeq(text, 4, Len(text)))
         ELSE <<Head(text)>> \o DecodeURIComponent(Tail(text))

QueryNames(q) == [i \in 1..Len(q) |-> q[i].name]

\* C12: every request is one GET whose query holds exactly search, optimized,
\* limit and threshold, then speed and dataset in the extended variant and
\* only there; search decodes to the term, optimized is "true" or "false" as
\* fast is, and the others are the values of the settled call.
C12_QueryParameters ==
    lastEvent.type = "start" =>
        LET q == ParseQuery(lastIssued.url.query)
        IN  /\ lastIssued.url.method = "GET"
            /\ Cardinality({r \in inflight : r.id = lastIssued.id}) = 1
            /\ QueryNames(q) =
                  <<  <<"s", "e", "a", "r", "c", "h">>,
                      <<"o", "p", "t", "i", "m", "i", "z", "e", "d">>,
                      <<"l", "i", "m", "i", "t">>,
                      <<"t", "h", "r", "e", "s", "h", "o", "l", "d">>  >>
                  \o (IF variant = "extended"
                      THEN << <<"s", "p", "e", "e", "d">>,
                              <<"d", "a", "t", "a", "s", "e", "t">> >>
                      ELSE <<>>)
            /\ DecodeURIComponent(q[1].value) = searchTerm
            /\ q[2].value = (IF fast THEN <<"t", "r", "u", "e">>
                             ELSE <<"f", "a", "l", "s", "e">>)
            /\ ParseInt(q[3].value) = [nan |-> FALSE, v |-> limit]
            /\ (threshold = 50 => q[4].value = <<"0", ".", "5">>)
            /\ (threshold = 80 => q[4].value = <<"0", ".", "8">>)
            /\ variant = "extended" =>
                  /\ ParseInt(q[5].value) = [nan |-> FALSE, v |-> speed]
                  /\ (dataset = "reviews" =>
                        q[6].value = <<"r", "e", "v", "i", "e", "w", "s">>)
                  /\ (dataset = "places" =>
                        q[6].value = <<"p", "l", "a", "c", "e", "s">>)

\* a request for a term that holds a reserved character has been sent
C12_Witness ==
    /\ lastEvent.type = "start"
    /\ variant = "extended"
    /\ lastIssued.args.search = <<"a", "&">>
    /\ dataset = "places"

(* Normalization *)

\* the raw array of the completion just taken, when the body held one
RawOfLast ==
    IF lastEvent.type = "complete" /\ lastEvent.raw.t = "array"
    THEN lastEvent.raw.items ELSE <<>>

\* the completion just taken normalized a results array free of null items
Normalized ==
    /\ lastEvent.type = "complete"
    /\ variant = "extended"
    /\ lastEvent.raw.t = "array"
    /\ \A i \in DOMAIN RawOfLast : RawOfLast[i] # Null

ProjectedFields == {"name", "location", "summary", "text", "score"}

\* the record holds exactly the five projected fields, each the parsed
\* object's own field or undefined
IsProjectionOf(record, jsonData) ==
    /\ DOMAIN record = ProjectedFields
    /\ \A f \in ProjectedFields :
          record[f] = IF jsonData.t = "object" /\ f \in DOMAIN jsonData.fields
                      THEN jsonData.fields[f] ELSE Undefined

\* C13 as stated: every raw item whose text parses as JSON is normalized to
\* the five fields name, location, summary, text, score of the parsed value.
C13_ParsedIsProjected ==
    Normalized =>
        /\ lastEvent.success
        /\ Len(results.items) = Len(RawOfLast)
        /\ \A i \in DOMAIN RawOfLast :
              ("text" \in DOMAIN RawOfLast[i] /\ JSONParse(RawOfLast[i].text).ok) =>
                  IsProjectionOf(results.items[i], JSONParse(RawOfLast[i].text).value)

\* C13 amended: every raw item whose text parses as JSON to a value other than
\* null is normalized to the five fields of the parsed value, text being the
\* parsed object's own text; a text that parses to null yields the record
\* holding only the raw text.
C13_NonNullParsedIsProjected ==
    Normalized =>
        /\ lastEvent.success
        /\ Len(results.items) = Len(RawOfLast)
        /\ \A i \in DOMAIN RawOfLast :
              ("text" \in DOMAIN RawOfLast[i] /\ JSONParse(RawOfLast[i].text).ok) =>
                  IF JSONParse(RawOfLast[i].text).value = Null
                  THEN results.items[i] = [text |-> RawOfLast[i].text]
                  ELSE IsProjectionOf(results.items[i],
                                      JSONParse(RawOfLast[i].text).value)

\* an array holding an object with its own text, the object of the spec's
\* example and a JSON null has been normalized
C13_Witness ==
    /\ Normalized
    /\ RawOfLast = << [text |-> Str(JsonOwnText)], [text |-> Str(JsonText)],
                      [text |-> Str(JsonNullText)] >>
    /\ results.items[1].text = Str("inner")
    /\ results.items[2].name = Str("A")
    /\ results.items[2].text = Undefined

\* C14: a raw item whose text is not valid JSON does not make normalization
\* throw and yields the record holding only text, the raw text.
C14_ProseFallsBack ==
    Normalized =>
        /\ lastEvent.success
        /\ error = ErrNull
        /\ Len(results.items) = Len(RawOfLast)
        /\ \A i \in DOMAIN RawOfLast :
              ("text" \in DOMAIN RawOfLast[i] /\ ~JSONParse(RawOfLast[i].text).ok) =>
                  /\ DOMAIN results.items[i] = {"text"}
                  /\ results.items[i].text = RawOfLast[i].text

\* an array holding a prose item has been normalized
C14_Witness ==
    /\ Normalized
    /\ Len(RawOfLast) = 2
    /\ RawOfLast[2] = [text |-> Str(ProseText)]
    /\ results.items[2] = [text |-> Str(ProseText)]

C17_NoRetry ==
    [][ /\ (lastEvent'.type = "complete" /\ inflight' # inflight) =>
              /\ issued' = issued
              /\ timerId' = timerId
              /\ lastArgs' = lastArgs
        /\ issued' # issued =>
              /\ issued' = issued + 1
              /\ lastEvent'.type = "start"
              /\ timerId # NoTimer
              /\ lastArgs # NoArgs
              /\ now - lastEditTime >= Wait
              /\ editCount >= 1
              /\ (issued > 0 => editCount > lastIssued.edits)
        /\ issued' <= editCount' ]_vars

\* the only request failed a wait ago or more and nothing was sent since
C17_Witness ==
    /\ issued = 1
    /\ inflight = {}
    /\ error = ErrorMessage
    /\ timerId = NoTimer
    /\ now - lastIssued.startTime >= Wait
    /\ lastEvent.type = "tick"

(* The limit *)

\* C18: whatever text is typed into the limit field, the stored limit is an
\* integer that is at least 1, and so is the limit every request carries.
C18_LimitAtLeastOne ==
    /\ limit >= 1
    /\ \A req \in inflight : req.args.limit >= 1
    /\ lastIssued # NoRequest => lastIssued.args.limit >= 1

(* The step that starts a request *)

\* the step sends a request: loading is set, error and timing are cleared,
\* results are left as they are
StartFrame ==
    issued' # issued =>
        /\ loading' = TRUE
        /\ error' = ErrNull
        /\ timingMetrics' = Null
        /\ results' = results
        /\ lastIssued' \in inflight'

\* C19 as stated: the step that starts a request sets loading, clears error
\* and timing and leaves results unchanged, and from then on the results stay
\* as they are until that request succeeds.
C19_ResultsHeldUntilSuccess ==
    [][ /\ StartFrame
        /\ (results' # results /\ lastIssued \in inflight) =>
              /\ lastEvent'.type = "complete"
              /\ lastEvent'.id = lastIssued.id
              /\ lastEvent'.success ]_vars

\* what does hold of the start step: it sets loading, clears error and timing
\* and leaves results unchanged; results change only in a step where some
\* request succeeds, the new one or an older one still in flight, or where a
\* window settles with an empty term.
StartLeavesResults ==
    [][ /\ StartFrame
        /\ results' # results =>
              \/ lastEvent'.type = "complete" /\ lastEvent'.success
              \/ lastEvent'.type = "reset" ]_vars

\* a second request has just been started over the results of the first
StartedOverResults ==
    /\ lastEvent.type = "start"
    /\ issued = 2
    /\ resultsFrom = 1
    /\ results # Arr(<<>>)
    /\ loading

(* Teardown *)

\* C20: once the component is unmounted, a pending debounce timer sends no
\* request and the completion of a request in flight changes nothing of
\* results, loading, error and timing.
C20_QuietAfterTeardown ==
    [][ ~mounted => (issued' = issued /\ reqState' = reqState) ]_vars

\* what does hold after the unmount: results, loading, error and timing are
\* never written again
StateKeptAfterTeardown ==
    [][ ~mounted => reqState' = reqState ]_vars

\* a response has arrived after the unmount while the spinner was on
CompletedAfterTeardown ==
    /\ lastEvent.type = "complete after unmount"
    /\ loading

(* Overlapping requests *)

\* C21: when the request sent last has completed with success and nothing is
\* in flight, error is null, also when an older request failed after the last
\* one was started.
C21_NoErrorBesideLatestSuccess ==
    (inflight = {} /\ latestOk) => error = ErrNull

\* C22: loading is true in every state in which a request is in flight.
C22_LoadingWhileInFlight ==
    inflight # {} => loading = TRUE

\* C23: loading is never true together with an error message or with timing
\* metrics, each handler run being one step.
C23_SpinnerAlone ==
    loading => (error = ErrNull /\ timingMetrics = Null)

\* a second request was started after the first one had completed: the
\* spinner is on, alone
C23_Witness ==
    /\ loading
    /\ issued = 2
    /\ inflight = {lastIssued}
    /\ resultsFrom = 0
    /\ lastIssued.overlaps = FALSE
    /\ error = ErrNull
    /\ lastEvent.type = "start"

(* Progress *)

\* the request sent last carries the parameter values of the current render
LastCarriesCurrent ==
    /\ issued > 0
    /\ lastIssued.args.search = searchTerm
    /\ lastIssued.args.threshold = threshold
    /\ lastIssued.args.fast = fast
    /\ lastIssued.args.limit = limit
    /\ variant = "extended" =>
          /\ lastIssued.args.speed = speed
          /\ lastIssued.args.dataset = dataset

\* C24: when the edits have stopped on a non-empty term, a request carrying
\* the final parameter values is eventually sent, and from some point on
\* nothing is in flight and loading is false, for good.
C24_SettlesOnFinalParams ==
    <>[](Len(searchTerm) > 0 =>
            (LastCarriesCurrent /\ inflight = {} /\ loading = FALSE))

\* two edits ended on a non-empty term, the request for it was answered and
\* the clock moved on
C24_Witness ==
    /\ Len(searchTerm) > 0
    /\ editCount = 2
    /\ LastCarriesCurrent
    /\ lastIssued.startTime >= lastEditTime + Wait
    /\ inflight = {}
    /\ loading = FALSE
    /\ now = MaxTime

(* Edits *)

\* how many of the six parameters differ between the two states of a step
ParamsChanged ==
    (IF searchTerm' # searchTerm THEN 1 ELSE 0)
      + (IF threshold' # threshold THEN 1 ELSE 0)
      + (IF fast' # fast THEN 1 ELSE 0)
      + (IF limit' # limit THEN 1 ELSE 0)
      + (IF speed' # speed THEN 1 ELSE 0)
      + (IF dataset' # dataset THEN 1 ELSE 0)

\* C25: an edit that leaves the term non-empty changes one parameter and no
\* other, leaves results, loading, error and timing as they are, sends no
\* request, and leaves the timer pending with the call time set to now, so
\* that it fires no earlier than a wait from now, with the new values; and
\* results, loading, error and timing change only in a step where the timer
\* callback runs the search function or a request completes.
C25_EditFrame ==
    [][ /\ (editCount' # editCount /\ Len(searchTerm') > 0) =>
              /\ ParamsChanged = 1
              /\ reqState' = reqState
              /\ issued' = issued
              /\ inflight' = inflight
              /\ timerId' # NoTimer
              /\ lastCallTime' = now
              /\ lastArgs'.search = searchTerm'
              /\ lastArgs'.threshold = threshold'
              /\ lastArgs'.fast = fast'
              /\ lastArgs'.limit = limit'
        /\ reqState' # reqState =>
              lastEvent'.type \in {"reset", "start", "complete"} ]_vars

\* a parameter was edited while the results and the timing of an answered
\* request were on display
C25_Witness ==
    /\ lastEvent.type = "edit"
    /\ Len(searchTerm) > 0
    /\ resultsFrom = 1
    /\ results # Arr(<<>>)
    /\ timingMetrics # Null
    /\ timerId # NoTimer
    /\ lastCallTime = now

====
